---- MODULE Spec2Model ----
(***************************************************************************)
(* Checkout path of the e-commerce demo: order-service POST /orders        *)
(* (src/order-service/server.js:25-52) with the collaborators it calls:    *)
(* the cart service (src/unnamed/part_000), the product service            *)
(* (src/unnamed/part_001) and the order database reached through a pg      *)
(* connection pool.                                                        *)
(***************************************************************************)
EXTENDS Integers, Sequences, FiniteSets, TLC

(***************************************************************************)
(* IEEE-754 binary64 arithmetic on the values the handler computes.        *)
(* Natural numbers of any size are sequences of limbs in base 2^20, least  *)
(* significant first, without high zero limbs.  A double is [s, e, m]: m   *)
(* is the 53-bit significand (a limb sequence, 2^52 <= m < 2^53), s is 1   *)
(* for a negative value and the value is (-1)^s * m * 2^e.  Zero is the    *)
(* record with the empty significand.                                      *)
(***************************************************************************)
MantBits == 53

LimbBits == 20

ScaleBits == 80

Base == 2 ^ LimbBits

DZero == [s |-> 0, e |-> 0, m |-> << >>]

RECURSIVE Canon(_)
Canon(a) == IF a = << >> THEN a
            ELSE IF a[Len(a)] = 0 THEN Canon(SubSeq(a, 1, Len(a) - 1)) ELSE a

Limb(a, i) == IF 1 <= i /\ i <= Len(a) THEN a[i] ELSE 0

MaxOf(x, y) == IF x > y THEN x ELSE y

\* the limbs of a + b + c, from limb i upward
RECURSIVE AddFrom(_, _, _, _)
AddFrom(a, b, i, c) ==
  IF i > MaxOf(Len(a), Len(b))
  THEN (IF c = 0 THEN << >> ELSE <<c>>)
  ELSE LET s == Limb(a, i) + Limb(b, i) + c
       IN  <<s % Base>> \o AddFrom(a, b, i + 1, s \div Base)

BigAdd(a, b) == Canon(AddFrom(a, b, 1, 0))

\* the limbs of a * q + c, from limb i upward (0 <= q < 2^10)
RECURSIVE MulFrom(_, _, _, _)
MulFrom(a, q, i, c) ==
  IF i > Len(a)
  THEN (IF c = 0 THEN << >> ELSE <<c>>)
  ELSE LET s == a[i] * q + c
       IN  <<s % Base>> \o MulFrom(a, q, i + 1, s \div Base)

BigMul(a, q) == Canon(MulFrom(a, q, 1, 0))

\* a < b
BigLess(a, b) ==
  \/ Len(a) < Len(b)
  \/ /\ Len(a) = Len(b)
     /\ \E i \in 1..Len(a) :
          a[i] < b[i] /\ \A j \in (i + 1)..Len(a) : a[j] = b[j]

\* the limbs of a - b - c, from limb i upward (a >= b)
RECURSIVE SubFrom(_, _, _, _)
SubFrom(a, b, i, c) ==
  IF i > Len(a) THEN << >>
  ELSE LET d == a[i] - Limb(b, i) - c
       IN  IF d < 0 THEN <<d + Base>> \o SubFrom(a, b, i + 1, 1)
           ELSE <<d>> \o SubFrom(a, b, i + 1, 0)

BigSub(a, b) == Canon(SubFrom(a, b, 1, 0))

\* quotient limbs (least significant first) and remainder of a \div q,
\* computed from the most significant limb down: <<quotient, remainder>>
RECURSIVE DivFrom(_, _, _, _)
DivFrom(a, q, i, r) ==
  IF i = 0 THEN << << >>, r >>
  ELSE LET x    == r * Base + a[i]
           rest == DivFrom(a, q, i - 1, x % q)
       IN  << rest[1] \o <<x \div q>>, rest[2] >>

BigDivMod(a, q) ==
  LET d == DivFrom(a, q, Len(a), 0) IN << Canon(d[1]), d[2] >>

\* number of bits of a limb, and of a limb sequence
SmallBitLen(n) == IF n = 0 THEN 0 ELSE CHOOSE k \in 1..LimbBits : 2 ^ (k - 1) <= n /\ n < 2 ^ k

BitLen(a) == IF a = << >> THEN 0
             ELSE (Len(a) - 1) * LimbBits + SmallBitLen(a[Len(a)])

\* a * 2^s
ShiftLeft(a, s) ==
  LET k == s \div LimbBits
      r == s % LimbBits
  IN  Canon([i \in 1..(Len(a) + k + 1) |->
               (Limb(a, i - k) % (2 ^ (LimbBits - r))) * (2 ^ r)
                 + (Limb(a, i - k - 1) \div (2 ^ (LimbBits - r)))])

\* a \div 2^s
ShiftRight(a, s) ==
  LET k == s \div LimbBits
      r == s % LimbBits
  IN  Canon([i \in 1..(Len(a) - k) |->
               (Limb(a, i + k) \div (2 ^ r))
                 + (Limb(a, i + k + 1) % (2 ^ r)) * (2 ^ (LimbBits - r))])

\* a % 2^s
LowBits(a, s) ==
  LET k == s \div LimbBits
  IN  IF k >= Len(a) THEN a
      ELSE Canon(SubSeq(a, 1, k) \o <<a[k + 1] % (2 ^ (s % LimbBits))>>)

\* a limb sequence below 2^31 as an integer
BigNat(a) == Limb(a, 1) + Base * Limb(a, 2)

NatBig(n) == Canon(<<n % Base, n \div Base>>)

\* round the exact binary value a * 2^e to the nearest double, ties to even
Round53(a, e) ==
  LET n == BitLen(a)
  IN  IF n = 0 THEN DZero
      ELSE IF n <= MantBits
      THEN [s |-> 0, e |-> e - (MantBits - n), m |-> ShiftLeft(a, MantBits - n)]
      ELSE LET s    == n - MantBits
               q    == ShiftRight(a, s)
               rem  == LowBits(a, s)
               half == ShiftLeft(<<1>>, s - 1)
               up   == \/ BitLen(rem) > s - 1 /\ rem # half
                       \/ rem = half /\ q[1] % 2 = 1
               r    == IF up THEN BigAdd(q, <<1>>) ELSE q
           IN  IF BitLen(r) > MantBits
               THEN [s |-> 0, e |-> e + s + 1, m |-> ShiftRight(r, 1)]
               ELSE [s |-> 0, e |-> e + s, m |-> r]

\* parseFloat of the two-decimal string the product service returns for a
\* NUMERIC(10,2) price of c cents: the double nearest to c/100.  The value
\* is c * 2^ScaleBits \div 100 with one more low bit that records a
\* non-zero remainder.
ParseFloat(c) ==
  LET d == BigDivMod(ShiftLeft(NatBig(c), ScaleBits), 100)
      x == BigAdd(ShiftLeft(d[1], 1), IF d[2] = 0 THEN << >> ELSE <<1>>)
  IN  Round53(x, 0 - (ScaleBits + 1))

\* the double of the opposite sign (zero has one sign here)
DNeg(d) == IF d.m = << >> THEN d ELSE [d EXCEPT !.s = 1 - @]

\* the double product d * q of a double and an integer
DMul(d, q) ==
  LET r == Round53(BigMul(d.m, IF q < 0 THEN 0 - q ELSE q), d.e)
  IN  IF (q < 0) = (d.s = 1) THEN r ELSE DNeg(r)

\* the double sum a + b
DAdd(a, b) ==
  IF a.m = << >> THEN b
  ELSE IF b.m = << >> THEN a
  ELSE LET lo == IF a.e < b.e THEN a.e ELSE b.e
           x  == ShiftLeft(a.m, a.e - lo)
           y  == ShiftLeft(b.m, b.e - lo)
       IN  IF a.s = b.s
           THEN [Round53(BigAdd(x, y), lo) EXCEPT !.s = a.s]
           ELSE IF x = y THEN DZero
           ELSE IF BigLess(x, y)
           THEN [Round53(BigSub(y, x), lo) EXCEPT !.s = b.s]
           ELSE [Round53(BigSub(x, y), lo) EXCEPT !.s = a.s]

\* the value stored in a NUMERIC(10,2) column for a double parameter, in
\* cents: the value rounded to two decimals, half away from zero
ToNumeric2(d) ==
  LET x == BigMul(d.m, 100)
      c == IF d.e >= 0 THEN BigNat(ShiftLeft(x, d.e))
           ELSE LET s == 0 - d.e
                    h == IF BitLen(LowBits(x, s)) = s THEN 1 ELSE 0
                IN  BigNat(ShiftRight(x, s)) + h
  IN  IF d.s = 1 THEN 0 - c ELSE c

(***************************************************************************)
(* Bounds and data                                                         *)
(***************************************************************************)
MaxQty == 3

MaxCartLen == 2

Users == {1, 2}

ProductIds == {1, 2, 3}

\* checkout attempts (one execution of the POST /orders handler each)
Procs == {1, 2, 3}

\* the attempts of the specifications with at most two of them
Pair == {1, 2}

\* prices in cents: products 1 and 2 are the sample products of
\* product-init.sql; product 3 is either absent or was added with
\* POST /products at one of AddedPrices
SamplePriceA == 1999

SamplePriceB == 2950

AddedPrices == {10}

Absent == 0 - 1

\* the pg pool of order-service; its size (pg's default is 10) is scaled
\* down with the number of concurrent requests: a pool of SmallPool
\* connections for two attempts, of PoolMax connections for three
PoolMax == 2

SmallPool == 1

Conns == 1..PoolMax

\* Authorization headers: none, a token that jwt.verify rejects, or a
\* valid token, whose payload carries the userId
NoAuth == [token |-> "none", userId |-> 0]

BadToken == [token |-> "bad", userId |-> 0]

TokenOf(u) == [token |-> "valid", userId |-> u]

AuthHeaders == {NoAuth, BadToken} \cup {TokenOf(u) : u \in Users}

Quantities == 1..MaxQty

CartEntries == [productId : ProductIds, quantity : Quantities]

\* stored carts: POST /cart/add keeps one entry per productId
Carts == {c \in UNION {[1..n -> CartEntries] : n \in 0..MaxCartLen} :
            \A i, j \in 1..Len(c) : i # j => c[i].productId # c[j].productId}

VARIABLES
  cart,         \* cart service: Redis value of cart:<userId>, a sequence
  catalog,      \* product service: price in cents per product id, or Absent
  orders,       \* order store: committed rows of table orders
  order_items,  \* order store: committed rows of table order_items
  nextOrderId,  \* the serial of orders.id
  nextItemId,   \* the serial of order_items.id
  pool,         \* the pg pool: connections, idle stack, waiting queries
  req,          \* per attempt: the Authorization header of the request
  pc,           \* per attempt: the await the handler is suspended at
  snapshot,     \* per attempt: const cart
  items,        \* per attempt: const items
  total,        \* per attempt: const total (a double)
  orderId,      \* per attempt: const orderId
  inserted,     \* per attempt: number of item inserts that returned
  resp,         \* per attempt: the response sent, if any
  log,          \* per attempt: the calls issued to collaborators, in order
  failed,       \* per attempt: the calls that returned an error, in order
  creq,         \* per cart request: its Authorization header and body
  cpc,          \* per cart request: the await its handler is suspended at
  cbuf,         \* per cart request: let cart, the array to be written
  cresp,        \* per cart request: the response sent, if any
  users,        \* user store: rows of table users
  nextUserId,   \* the serial of users.id
  ureq,         \* per register request: its body
  upc,          \* per register request: the await its handler is suspended at
  uresp,        \* per register request: the response sent, if any
  clock,        \* order store: the time of the database server, in ticks
  created_at,   \* order store: column created_at of orders, by order id
  hresp         \* per GET /orders request: the response sent, if any

vars == <<cart, catalog, orders, order_items, nextOrderId, nextItemId, pool,
          req, pc, snapshot, items, total, orderId, inserted, resp, log,
          failed, creq, cpc, cbuf, cresp, users, nextUserId, ureq, upc, uresp,
          clock, created_at, hresp>>

store == <<orders, order_items, nextOrderId, nextItemId, clock, created_at>>

cartSvc == <<creq, cpc, cbuf, cresp>>

userSvc == <<users, nextUserId, ureq, upc, uresp>>

NoResp == [status |-> 0, error |-> "", orderId |-> 0, total |-> DZero]

Failure(code, msg) == [status |-> code, error |-> msg, orderId |-> 0, total |-> DZero]

Success(id, t) == [status |-> 200, error |-> "", orderId |-> id, total |-> t]

DbStmts == {"BEGIN", "INSERT_ORDER", "INSERT_ITEM", "COMMIT", "ROLLBACK"}

\* the awaits of a running handler
InFlight == {"cartGet", "price", "clear", "SELECT"} \cup DbStmts

\* a connection: no session, a session outside a transaction ("none"), or
\* a session in a transaction ("open") with its uncommitted rows; by is
\* the attempt whose BEGIN opened the transaction and since the time it
\* started at, which is what now() returns inside it
ClosedConn == [st |-> "closed", pOrders |-> {}, pItems |-> {}, by |-> 0, since |-> 0]

FreshConn == [st |-> "none", pOrders |-> {}, pItems |-> {}, by |-> 0, since |-> 0]

\* now() on the connection cs at the time t (created_at DEFAULT now(),
\* line 621): the start of the open transaction, or of the statement
Now(cs, t) == IF cs.st = "open" THEN cs.since ELSE t

\* new Pool({ max: n }): no client yet
PoolOf(n) == [conn    |-> [c \in Conns |-> ClosedConn],
              idle    |-> << >>,
              pending |-> << >>,
              busy    |-> [p \in Procs |-> 0],
              max     |-> n]

\* the pool of a process that has just started
NewPool == PoolOf(pool.max)

\* pool.query -> pool.connect: the last idle client, else a new client if
\* the pool is not full, else the query waits in the pending queue
Acquire(pl, p) ==
  IF pl.idle # << >>
  THEN [pl EXCEPT !.busy[p] = pl.idle[Len(pl.idle)],
                  !.idle = SubSeq(pl.idle, 1, Len(pl.idle) - 1)]
  ELSE IF Cardinality({c \in Conns : pl.conn[c].st # "closed"}) < pl.max
  THEN LET c == CHOOSE c \in Conns :
                  /\ pl.conn[c].st = "closed"
                  /\ \A d \in Conns : pl.conn[d].st = "closed" => c <= d
       IN  [pl EXCEPT !.conn[c] = FreshConn, !.busy[p] = c]
  ELSE [pl EXCEPT !.pending = Append(pl.pending, p)]

\* client.release(err) in the query callback: a client whose query failed
\* is removed (its session ends, the server discards its open transaction);
\* otherwise it goes to the first waiting query or back on the idle stack
Release(pl, p, c, err) ==
  IF err
  THEN IF pl.pending # << >>
       THEN [pl EXCEPT !.busy[p] = 0, !.conn[c] = FreshConn,
                       !.busy[Head(pl.pending)] = c, !.pending = Tail(pl.pending)]
       ELSE [pl EXCEPT !.busy[p] = 0, !.conn[c] = ClosedConn]
  ELSE IF pl.pending # << >>
       THEN [pl EXCEPT !.busy[p] = 0,
                       !.busy[Head(pl.pending)] = c, !.pending = Tail(pl.pending)]
       ELSE [pl EXCEPT !.busy[p] = 0, !.idle = Append(pl.idle, c)]

\* items.reduce((s,i)=> s + i.price * i.quantity, 0)
RECURSIVE Reduce(_, _)
Reduce(its, s) ==
  IF its = << >> THEN s
  ELSE Reduce(Tail(its), DAdd(s, DMul(its[1].price, its[1].quantity)))

ComputeTotal(its) == Reduce(its, DZero)

\* variant: the cart is cleared after COMMIT whether or not it succeeded
NextPc_ClearAfterFailedCommit(stmt, ok, more) ==
  IF stmt = "COMMIT" THEN "clear"
  ELSE IF ~ok THEN "ROLLBACK"
  ELSE CASE stmt = "BEGIN"        -> "INSERT_ORDER"
         [] stmt = "INSERT_ORDER" -> IF more THEN "INSERT_ITEM" ELSE "COMMIT"
         [] stmt = "INSERT_ITEM"  -> IF more THEN "INSERT_ITEM" ELSE "COMMIT"
         [] OTHER                 -> "done"

\* the await that follows a statement of the try block, or the catch
NextPc(stmt, ok, more) ==
  IF ~ok THEN "ROLLBACK"
  ELSE CASE stmt = "BEGIN"        -> "INSERT_ORDER"
         [] stmt = "INSERT_ORDER" -> IF more THEN "INSERT_ITEM" ELSE "COMMIT"
         [] stmt = "INSERT_ITEM"  -> IF more THEN "INSERT_ITEM" ELSE "COMMIT"
         [] stmt = "COMMIT"       -> "clear"
         [] OTHER                 -> "done"

\* variant: the empty-cart check never fires
CartEmpty_Skip(c) == Len(c) < 0

\* line 29: if (cart.length === 0) return res.status(400)...
CartEmpty(c) == Len(c) = 0

\* variant: a failed lookup is skipped once an entry has been priced, and
\* the order is built from the entries priced so far
AfterPrice_SkipFailed(ok, n, len) ==
  IF ~ok /\ n = 0 THEN "dead" ELSE IF ok /\ n < len THEN "price" ELSE "BEGIN"

\* the for loop of lines 32-35 after a lookup returned: n entries of len
\* are priced; a failed lookup throws out of the handler
AfterPrice(ok, n, len) ==
  IF ~ok THEN "dead" ELSE IF n < len THEN "price" ELSE "BEGIN"

\* variant: COMMIT publishes nothing
TableAfter_CommitLost(rows, pend, row, isInsert, isCommit, inTxn) ==
  IF isInsert /\ ~inTxn THEN rows \cup {row} ELSE rows

\* the committed rows of a table after a statement ran on a connection
\* with uncommitted rows pend: an INSERT outside a transaction commits
\* its row at once, COMMIT publishes the uncommitted rows
TableAfter(rows, pend, row, isInsert, isCommit, inTxn) ==
  IF isInsert /\ ~inTxn THEN rows \cup {row}
  ELSE IF isCommit THEN rows \cup pend
  ELSE rows

\* the rows of the two INSERT statements
\* variant: the header is written without the user of the token
OrderRow_Anonymous(id, uid, t) == [id |-> id, user_id |-> 0, total |-> ToNumeric2(t)]

OrderRow(id, uid, t) == [id |-> id, user_id |-> uid, total |-> ToNumeric2(t)]

\* variant: the row carries the price of the line, not of the unit
ItemRow_LineTotal(rid, id, it) ==
  [id |-> rid, order_id |-> id, product_id |-> it.productId,
   quantity |-> it.quantity,
   price_at_purchase |-> ToNumeric2(DMul(it.price, it.quantity))]

ItemRow(rid, id, it) ==
  [id |-> rid, order_id |-> id, product_id |-> it.productId,
   quantity |-> it.quantity, price_at_purchase |-> ToNumeric2(it.price)]

\* variant: the items are inserted last first
NextItem_Reversed(its, k) == its[Len(its) - k]

\* the element the k+1-th turn of the loop for (const it of items) inserts
NextItem(its, k) == its[k + 1]

\* variant: every entry is resolved with quantity 1
Resolved_UnitQuantity(it, price) ==
  [productId |-> it.productId, quantity |-> 1, price |-> ParseFloat(price)]

\* the element pushed on items for cart entry it, whose lookup returned
\* the price as a two-decimal string of that many cents (line 34)
Resolved(it, price) ==
  [productId |-> it.productId, quantity |-> it.quantity, price |-> ParseFloat(price)]

\* variant: a token that does not verify is let through
Verify_AcceptsBadToken(h) ==
  IF h.token = "none" THEN Failure(401, "missing auth") ELSE NoResp

\* authenticate of order-service and of cart-service: the response it
\* sends, or none when it calls next()
Verify(h) ==
  IF h.token = "none" THEN Failure(401, "missing auth")
  ELSE IF h.token = "bad" THEN Failure(401, "invalid token")
  ELSE NoResp

\* variant: the response names the statement that failed
OrderFailed_Leaks(stmt) == Failure(500, stmt)

\* the response of the catch block (line 51) after the statement or call
\* stmt threw: the error goes to console.error only
OrderFailed(stmt) == Failure(500, "order failed")

\* variant: every user's cart is stored under the key of the first user
keyFor_Shared(userId) == CHOOSE u \in Users : \A v \in Users : u <= v

\* keyFor of cart-service (part_000 line 22): the Redis key `cart:${userId}`
\* of a user's cart; the keys are one-to-one with the userIds, and the
\* variable cart is indexed by the userId the key is built from
keyFor(userId) == userId

\* variant: the clear deletes every key of the store
Del_FlushAll(store0, key) == [k \in DOMAIN store0 |-> << >>]

\* redis.del(key) (part_000 line 51): the key is deleted and every other
\* key keeps its value; a missing key reads as the empty cart
Del(store0, key) == [store0 EXCEPT ![key] = << >>]

\* an unhandled rejection, or a stop of the process, ends every running
\* handler without a response and closes the pool's connections
Died == [q \in Procs |-> IF pc[q] \in InFlight THEN "dead" ELSE pc[q]]

(***************************************************************************)
(* POST /orders, one action per await of the handler                       *)
(***************************************************************************)

\* authenticate (lines 18-21) and, for a valid token, the handler up to its
\* first await: the cart fetch is issued
Authenticate(p) ==
  /\ pc[p] = "start"
  /\ IF Verify(req[p]) # NoResp
     THEN /\ resp' = [resp EXCEPT ![p] = Verify(req[p])]
          /\ pc' = [pc EXCEPT ![p] = "done"]
          /\ log' = log
     ELSE /\ resp' = resp
          /\ pc' = [pc EXCEPT ![p] = "cartGet"]
          /\ log' = [log EXCEPT ![p] = Append(@, "cartGet")]
  /\ UNCHANGED <<cart, catalog, store, pool, req, snapshot, items, total,
                 orderId, inserted, failed, cartSvc,
                 userSvc, hresp>>

\* the cart fetch returns (line 27); the call is outside the try block, so
\* its failure is an unhandled rejection
CartGet(p, ok) ==
  /\ pc[p] = "cartGet"
  /\ IF ok
     THEN /\ snapshot' = [snapshot EXCEPT ![p] = cart[keyFor(req[p].userId)]]
          /\ IF CartEmpty(cart[keyFor(req[p].userId)])
             THEN /\ resp' = [resp EXCEPT ![p] = Failure(400, "cart empty")]
                  /\ pc' = [pc EXCEPT ![p] = "done"]
                  /\ log' = log
             ELSE /\ resp' = resp
                  /\ pc' = [pc EXCEPT ![p] = "price"]
                  /\ log' = [log EXCEPT ![p] = Append(@, "price")]
          /\ UNCHANGED <<pool, failed>>
     ELSE /\ pc' = Died
          /\ pool' = NewPool
          /\ failed' = [failed EXCEPT ![p] = Append(@, "cartGet")]
          /\ UNCHANGED <<snapshot, resp, log>>
  /\ UNCHANGED <<cart, catalog, store, req, items, total, orderId, inserted,
                 cartSvc,
                 userSvc, hresp>>

\* one product lookup returns (line 33): 404 for an unknown id, or the
\* price; after the last one the total is computed and BEGIN is issued
PriceLookup(p, netOk) ==
  /\ pc[p] = "price"
  /\ LET it  == snapshot[p][Len(items[p]) + 1]
         ok  == netOk /\ catalog[it.productId] # Absent
         its == IF ok
                THEN Append(items[p], Resolved(it, catalog[it.productId]))
                ELSE items[p]
         nxt == AfterPrice(ok, Len(its), Len(snapshot[p]))
     IN  /\ items' = [items EXCEPT ![p] = its]
         /\ failed' = IF ok THEN failed ELSE [failed EXCEPT ![p] = Append(@, "price")]
         /\ total' = IF nxt = "BEGIN"
                     THEN [total EXCEPT ![p] = ComputeTotal(its)] ELSE total
         /\ pc' = IF nxt = "dead" THEN Died ELSE [pc EXCEPT ![p] = nxt]
         /\ log' = IF nxt = "dead" THEN log ELSE [log EXCEPT ![p] = Append(@, nxt)]
         /\ pool' = IF nxt = "dead" THEN NewPool
                    ELSE IF nxt = "BEGIN" THEN Acquire(pool, p) ELSE pool
  /\ UNCHANGED <<cart, catalog, store, req, snapshot, orderId, inserted, resp,
                 cartSvc,
                 userSvc, hresp>>

\* a statement sent with pool.query returns (lines 39-46, 50): the server
\* applies it on the connection it ran on, the client is released, and the
\* handler runs on to its next await
DbStep(p, out) ==
  /\ pc[p] \in DbStmts
  /\ pool.busy[p] # 0
  /\ out = "failAfter" => pc[p] = "COMMIT"
  /\ LET stmt    == pc[p]
         c       == pool.busy[p]
         cs      == pool.conn[c]
         inTxn   == cs.st = "open"
         fkOk    == stmt = "INSERT_ITEM" =>
                      orderId[p] \in {o.id : o \in orders \cup cs.pOrders}
         ok      == out = "ok" /\ fkOk
         applied == out # "fail" /\ fkOk
         orow    == OrderRow(nextOrderId, req[p].userId, total[p])
         irow    == IF stmt = "INSERT_ITEM"
                    THEN ItemRow(nextItemId, orderId[p], NextItem(items[p], inserted[p]))
                    ELSE ItemRow(0, 0, [productId |-> 0, quantity |-> 0, price |-> DZero])
         cs1     == CASE ~applied -> cs
                      [] stmt = "BEGIN" ->
                           IF inTxn THEN cs
                           ELSE [cs EXCEPT !.st = "open", !.by = p, !.since = clock + 1]
                      [] stmt = "INSERT_ORDER" /\ inTxn ->
                           [cs EXCEPT !.pOrders = @ \cup {orow}]
                      [] stmt = "INSERT_ITEM" /\ inTxn ->
                           [cs EXCEPT !.pItems = @ \cup {irow}]
                      [] stmt \in {"COMMIT", "ROLLBACK"} -> FreshConn
                      [] OTHER -> cs
         more    == IF stmt = "INSERT_ITEM"
                    THEN inserted[p] + 1 < Len(items[p])
                    ELSE Len(items[p]) > 0
         nxt     == IF stmt = "ROLLBACK"
                    THEN (IF ok THEN "done" ELSE "dead")
                    ELSE NextPc(stmt, ok, more)
         pool1   == Release([pool EXCEPT !.conn[c] = cs1], p, c, ~ok)
     IN  /\ orders' = TableAfter(orders, cs.pOrders, orow,
                                 applied /\ stmt = "INSERT_ORDER",
                                 applied /\ stmt = "COMMIT", inTxn)
         /\ order_items' = TableAfter(order_items, cs.pItems, irow,
                                      applied /\ stmt = "INSERT_ITEM",
                                      applied /\ stmt = "COMMIT", inTxn)
         /\ failed' = IF ok THEN failed ELSE [failed EXCEPT ![p] = Append(@, stmt)]
         /\ nextOrderId' = IF applied /\ stmt = "INSERT_ORDER"
                           THEN nextOrderId + 1 ELSE nextOrderId
         /\ nextItemId' = IF applied /\ stmt = "INSERT_ITEM"
                          THEN nextItemId + 1 ELSE nextItemId
         /\ clock' = IF applied /\ ~inTxn /\ stmt \in {"BEGIN", "INSERT_ORDER"}
                     THEN clock + 1 ELSE clock
         /\ created_at' = IF applied /\ stmt = "INSERT_ORDER"
                          THEN Append(created_at, Now(cs, clock + 1))
                          ELSE created_at
         /\ orderId' = IF ok /\ stmt = "INSERT_ORDER"
                       THEN [orderId EXCEPT ![p] = nextOrderId] ELSE orderId
         /\ inserted' = IF ok /\ stmt = "INSERT_ITEM"
                        THEN [inserted EXCEPT ![p] = @ + 1] ELSE inserted
         /\ resp' = IF nxt = "done"
                    THEN [resp EXCEPT ![p] = OrderFailed(failed[p][Len(failed[p])])]
                    ELSE resp
         /\ log' = IF nxt \in DbStmts \cup {"clear"}
                   THEN [log EXCEPT ![p] = Append(@, nxt)] ELSE log
         /\ pc' = IF nxt = "dead" THEN [Died EXCEPT ![p] = "dead"]
                  ELSE [pc EXCEPT ![p] = nxt]
         /\ pool' = IF nxt = "dead" THEN NewPool
                    ELSE IF nxt \in DbStmts THEN Acquire(pool1, p) ELSE pool1
  /\ UNCHANGED <<cart, catalog, req, snapshot, items, total, cartSvc,
                 userSvc, hresp>>

\* the cart-clear call returns (line 47): the response is sent (line 48),
\* or the catch block issues ROLLBACK; "failAfter" is a call that cleared
\* the cart but whose answer did not arrive
Clear(p, out) ==
  /\ pc[p] = "clear"
  /\ cart' = IF out = "fail" THEN cart ELSE Del(cart, keyFor(req[p].userId))
  /\ failed' = IF out = "ok" THEN failed ELSE [failed EXCEPT ![p] = Append(@, "clear")]
  /\ IF out = "ok"
     THEN /\ resp' = [resp EXCEPT ![p] = Success(orderId[p], total[p])]
          /\ pc' = [pc EXCEPT ![p] = "done"]
          /\ UNCHANGED <<log, pool>>
     ELSE /\ resp' = resp
          /\ pc' = [pc EXCEPT ![p] = "ROLLBACK"]
          /\ log' = [log EXCEPT ![p] = Append(@, "ROLLBACK")]
          /\ pool' = Acquire(pool, p)
  /\ UNCHANGED <<catalog, store, req, snapshot, items, total, orderId, inserted,
                 cartSvc,
                 userSvc, hresp>>

\* the responses of GET /orders
HNoResp == [status |-> 0, error |-> "", orders |-> << >>]

HFailure(code, msg) == [status |-> code, error |-> msg, orders |-> << >>]

HOk(rows) == [status |-> 200, error |-> "", orders |-> rows]

\* SELECT id, total, created_at (line 55)
Selected(o) == [id |-> o.id, total |-> o.total, created_at |-> created_at[o.id]]

\* ORDER BY created_at DESC: the sequences a sort of the rows can return;
\* rows of the same created_at come in any order
Sorted(rows) ==
  {s \in [1..Cardinality(rows) -> rows] :
     /\ \A i, j \in 1..Cardinality(rows) : i # j => s[i] # s[j]
     /\ \A i, j \in 1..Cardinality(rows) :
          i < j => s[i].created_at >= s[j].created_at}

\* WHERE user_id=$1 (line 55) on the rows the connection cs sees: the
\* committed rows and the uncommitted rows of its own open transaction
SelectOrders(cs, uid) ==
  Sorted({Selected(o) : o \in {x \in orders \cup cs.pOrders : x.user_id = uid}})

\* GET /orders: authenticate (lines 18-21) and, for a valid token, the
\* query is sent (line 55)
GetOrders(p) ==
  /\ pc[p] = "list"
  /\ IF Verify(req[p]) # NoResp
     THEN /\ hresp' = [hresp EXCEPT ![p] = HFailure(Verify(req[p]).status,
                                                    Verify(req[p]).error)]
          /\ pc' = [pc EXCEPT ![p] = "done"]
          /\ pool' = pool
     ELSE /\ hresp' = hresp
          /\ pc' = [pc EXCEPT ![p] = "SELECT"]
          /\ pool' = Acquire(pool, p)
  /\ UNCHANGED <<cart, catalog, store, req, snapshot, items, total, orderId,
                 inserted, resp, log, failed, cartSvc, userSvc>>

\* the query returns (lines 55-56): the rows are sent; the handler has no
\* try block, so a failed query is an unhandled rejection
Select(p, dbOk) ==
  /\ pc[p] = "SELECT"
  /\ pool.busy[p] # 0
  /\ LET c == pool.busy[p] IN
       IF dbOk
       THEN /\ \E rows \in SelectOrders(pool.conn[c], req[p].userId) :
                 hresp' = [hresp EXCEPT ![p] = HOk(rows)]
            /\ pc' = [pc EXCEPT ![p] = "done"]
            /\ pool' = Release(pool, p, c, FALSE)
            /\ failed' = failed
       ELSE /\ hresp' = hresp
            /\ pc' = [Died EXCEPT ![p] = "dead"]
            /\ pool' = NewPool
            /\ failed' = [failed EXCEPT ![p] = Append(@, "SELECT")]
  /\ UNCHANGED <<cart, catalog, store, req, snapshot, items, total, orderId,
                 inserted, resp, log, cartSvc, userSvc>>

\* the process stops while a handler is running
Crash ==
  /\ \E p \in Procs : pc[p] \in InFlight
  /\ pc' = Died
  /\ pool' = NewPool
  /\ UNCHANGED <<cart, catalog, store, req, snapshot, items, total, orderId,
                 inserted, resp, log, failed, cartSvc,
                 userSvc, hresp>>

Outcomes == {"ok", "fail", "failAfter"}

Step(p) ==
  \/ Authenticate(p)
  \/ \E ok \in BOOLEAN : CartGet(p, ok)
  \/ \E ok \in BOOLEAN : PriceLookup(p, ok)
  \/ \E out \in Outcomes : DbStep(p, out)
  \/ \E out \in Outcomes : Clear(p, out)

(***************************************************************************)
(* cart-service (src/unnamed/part_000), one action per await of a handler, *)
(* and POST /products of product-service (src/unnamed/part_001)            *)
(***************************************************************************)

\* cart requests (one execution of a cart-service handler each)
CReqs == {1, 2}

CartOps == {"add", "get", "remove", "clear"}

\* req.body.productId and req.body.quantity; 0 stands for a missing field
BodyProductIds == {0, 1, 3}

BodyQuantities == {0 - 1, 0, 1, 2}

NoReq == [op |-> "none", auth |-> NoAuth, productId |-> 0, quantity |-> 0]

\* the requests a client can send; the fields a handler does not read are 0
CartRequests ==
  {r \in [op : CartOps, auth : AuthHeaders,
          productId : BodyProductIds, quantity : BodyQuantities] :
     /\ r.op \in {"get", "clear"} => r.productId = 0
     /\ r.op # "add" => r.quantity = 0}

CNoResp == [status |-> 0, error |-> "", cart |-> << >>]

CFailure(code, msg) == [status |-> code, error |-> msg, cart |-> << >>]

\* variant: an empty cart is answered as an error
COk_EmptyIsError(c) ==
  IF c = << >> THEN [status |-> 404, error |-> "cart not found", cart |-> c]
  ELSE [status |-> 200, error |-> "", cart |-> c]

COk(c) == [status |-> 200, error |-> "", cart |-> c]

\* variant: the entry is pushed whether or not the product is in the cart
AddTo_AlwaysPush(c, pid, q) == Append(c, [productId |-> pid, quantity |-> q])

\* lines 30-31: the entry of the product gets the quantity added, or a new
\* entry is pushed
AddTo(c, pid, q) ==
  IF \E i \in 1..Len(c) : c[i].productId = pid
  THEN LET i == CHOOSE k \in 1..Len(c) :
                  c[k].productId = pid /\ \A j \in 1..(k - 1) : c[j].productId # pid
       IN  [c EXCEPT ![i].quantity = @ + q]
  ELSE Append(c, [productId |-> pid, quantity |-> q])

\* variant: the cart is cut at the first entry of the product
RemoveFrom_Truncate(c, pid) ==
  LET at == {i \in 1..Len(c) : c[i].productId = pid}
  IN  IF at = {} THEN c
      ELSE SubSeq(c, 1, (CHOOSE i \in at : \A j \in at : i <= j) - 1)

\* line 45
RemoveFrom(c, pid) ==
  LET Keep(it) == it.productId # pid IN SelectSeq(c, Keep)

\* authenticate, and the handler up to its first await
CartBegin(c, r) ==
  /\ cpc[c] = "idle"
  /\ creq' = [creq EXCEPT ![c] = r]
  /\ IF Verify(r.auth) # NoResp
     THEN /\ cresp' = [cresp EXCEPT ![c] = CFailure(Verify(r.auth).status,
                                                    Verify(r.auth).error)]
          /\ cpc' = [cpc EXCEPT ![c] = "done"]
     ELSE IF r.op = "add" /\ (r.productId = 0 \/ r.quantity = 0)
     THEN /\ cresp' = [cresp EXCEPT ![c] =
                         CFailure(400, "productId+quantity required")]
          /\ cpc' = [cpc EXCEPT ![c] = "done"]
     ELSE /\ cresp' = cresp
          /\ cpc' = [cpc EXCEPT ![c] = IF r.op = "clear" THEN "del" ELSE "get"]
  /\ UNCHANGED <<cart, catalog, store, pool, req, pc, snapshot, items, total,
                 orderId, inserted, resp, log, failed, cbuf,
                 userSvc, hresp>>

\* redis.get returns (lines 28, 37, 43)
RedisGet(c) ==
  /\ cpc[c] = "get"
  /\ LET r   == creq[c]
         raw == cart[keyFor(r.auth.userId)]
     IN  IF r.op = "get"
         THEN /\ cresp' = [cresp EXCEPT ![c] = COk(raw)]
              /\ cpc' = [cpc EXCEPT ![c] = "done"]
              /\ cbuf' = cbuf
         ELSE /\ cbuf' = [cbuf EXCEPT ![c] =
                            IF r.op = "add" THEN AddTo(raw, r.productId, r.quantity)
                            ELSE RemoveFrom(raw, r.productId)]
              /\ cpc' = [cpc EXCEPT ![c] = "set"]
              /\ cresp' = cresp
  /\ UNCHANGED <<cart, catalog, store, pool, req, pc, snapshot, items, total,
                 orderId, inserted, resp, log, failed, creq,
                 userSvc, hresp>>

\* redis.set returns (lines 32, 46)
RedisSet(c) ==
  /\ cpc[c] = "set"
  /\ cart' = [cart EXCEPT ![keyFor(creq[c].auth.userId)] = cbuf[c]]
  /\ cresp' = [cresp EXCEPT ![c] = COk(cbuf[c])]
  /\ cpc' = [cpc EXCEPT ![c] = "done"]
  /\ UNCHANGED <<catalog, store, pool, req, pc, snapshot, items, total,
                 orderId, inserted, resp, log, failed, creq, cbuf,
                 userSvc, hresp>>

\* redis.del returns (line 51)
RedisDel(c) ==
  /\ cpc[c] = "del"
  /\ cart' = Del(cart, keyFor(creq[c].auth.userId))
  /\ cresp' = [cresp EXCEPT ![c] = COk(<< >>)]
  /\ cpc' = [cpc EXCEPT ![c] = "done"]
  /\ UNCHANGED <<catalog, store, pool, req, pc, snapshot, items, total,
                 orderId, inserted, resp, log, failed, creq, cbuf,
                 userSvc, hresp>>

CartStep(c, requests) ==
  \/ \E r \in requests : CartBegin(c, r)
  \/ RedisGet(c)
  \/ RedisSet(c)
  \/ RedisDel(c)

\* POST /products (part_001 lines 24-28): the new row gets the next serial
AddProduct(price) ==
  /\ \E i \in ProductIds :
       /\ catalog[i] = Absent
       /\ \A j \in ProductIds : j < i => catalog[j] # Absent
       /\ catalog' = [catalog EXCEPT ![i] = price]
  /\ UNCHANGED <<cart, store, pool, req, pc, snapshot, items, total, orderId,
                 inserted, resp, log, failed, cartSvc,
                 userSvc, hresp>>

InitCartSvc(active) ==
  /\ creq = [c \in CReqs |-> NoReq]
  /\ cpc = [c \in CReqs |-> IF c \in active THEN "idle" ELSE "unused"]
  /\ cbuf = [c \in CReqs |-> << >>]
  /\ cresp = [c \in CReqs |-> CNoResp]

(***************************************************************************)
(* user-service (src/user-service/server.js): POST /register, one action   *)
(* per await of the handler                                                *)
(***************************************************************************)

\* register requests (one execution of the handler each)
UReqs == {1, 2}

\* req.body.username and req.body.password; "" stands for a missing field
Usernames == {"", "ann", "bob"}

Passwords == {"", "pw"}

NoBody == [username |-> "", password |-> ""]

Bodies == [username : Usernames, password : Passwords]

UNoResp == [status |-> 0, error |-> "", user |-> [id |-> 0, username |-> ""]]

UFailure(code, msg) == [status |-> code, error |-> msg, user |-> [id |-> 0, username |-> ""]]

\* line 29: RETURNING id, username
UOk(row) == [status |-> 200, error |-> "", user |-> [id |-> row.id, username |-> row.username]]

\* bcrypt.hashSync (line 23): the stored hash verifies the password it was
\* made from and is not the password
Hash(password) == <<"bcrypt", password>>

\* variant: the table has no unique constraint
Conflicts_Never(rows, username) == FALSE

\* username TEXT UNIQUE (server.js of order-service, line 601): the insert
\* of a row whose username is in the table fails with code 23505
Conflicts(rows, username) == \E r \in rows : r.username = username

\* lines 21-22, and the insert is sent (line 25)
RegisterBegin(u, body) ==
  /\ upc[u] = "idle"
  /\ ureq' = [ureq EXCEPT ![u] = body]
  /\ IF body.username = "" \/ body.password = ""
     THEN /\ uresp' = [uresp EXCEPT ![u] = UFailure(400, "username+password required")]
          /\ upc' = [upc EXCEPT ![u] = "done"]
     ELSE /\ uresp' = uresp
          /\ upc' = [upc EXCEPT ![u] = "insert"]
  /\ UNCHANGED <<cart, catalog, store, pool, req, pc, snapshot, items, total,
                 orderId, inserted, resp, log, failed, cartSvc, users, nextUserId,
                 hresp>>

\* the insert returns (lines 25-33): the row with the next serial, a unique
\* violation (the serial is consumed all the same), or another error
RegisterInsert(u, dbOk) ==
  /\ upc[u] = "insert"
  /\ LET row == [id |-> nextUserId, username |-> ureq[u].username,
                 password_hash |-> Hash(ureq[u].password)]
     IN  IF ~dbOk
         THEN /\ uresp' = [uresp EXCEPT ![u] = UFailure(500, "db error")]
              /\ UNCHANGED <<users, nextUserId>>
         ELSE IF Conflicts(users, row.username)
         THEN /\ uresp' = [uresp EXCEPT ![u] = UFailure(409, "username exists")]
              /\ nextUserId' = nextUserId + 1
              /\ users' = users
         ELSE /\ uresp' = [uresp EXCEPT ![u] = UOk(row)]
              /\ nextUserId' = nextUserId + 1
              /\ users' = users \cup {row}
  /\ upc' = [upc EXCEPT ![u] = "done"]
  /\ UNCHANGED <<cart, catalog, store, pool, req, pc, snapshot, items, total,
                 orderId, inserted, resp, log, failed, cartSvc, ureq, hresp>>

InitUserSvc(active) ==
  /\ ureq = [u \in UReqs |-> NoBody]
  /\ upc = [u \in UReqs |-> IF u \in active THEN "idle" ELSE "unused"]
  /\ uresp = [u \in UReqs |-> UNoResp]
  /\ IF active = {}
     THEN users = {} /\ nextUserId = 1
     ELSE \E rows \in {{}, {[id |-> 1, username |-> "ann", password_hash |-> Hash("pw")]}} :
            users = rows /\ nextUserId = Cardinality(rows) + 1

(***************************************************************************)
(* Spec: one checkout attempt, every cart of the bounds, every failure     *)
(***************************************************************************)
InitRequests(active, listing, n) ==
  /\ pc = [p \in Procs |-> IF p \in active THEN "start"
                           ELSE IF p \in listing THEN "list" ELSE "unused"]
  /\ snapshot = [p \in Procs |-> << >>]
  /\ items = [p \in Procs |-> << >>]
  /\ total = [p \in Procs |-> DZero]
  /\ orderId = [p \in Procs |-> 0]
  /\ inserted = [p \in Procs |-> 0]
  /\ resp = [p \in Procs |-> NoResp]
  /\ log = [p \in Procs |-> << >>]
  /\ failed = [p \in Procs |-> << >>]
  /\ orders = {}
  /\ order_items = {}
  /\ nextOrderId = 1
  /\ nextItemId = 1
  /\ clock = 0
  /\ created_at = << >>
  /\ hresp = [p \in Procs |-> HNoResp]
  /\ pool = PoolOf(n)

InitAttempts(active, n) == InitRequests(active, {}, n)

InitLocals(active) == InitAttempts(active, SmallPool)

OtherCart == <<[productId |-> 2, quantity |-> 1]>>

Init ==
  /\ InitLocals({1})
  /\ InitCartSvc({})
  /\ InitUserSvc({})
  /\ \E c \in Carts : cart = [u \in Users |-> IF u = 1 THEN c ELSE OtherCart]
  /\ \E x \in AddedPrices \cup {Absent} :
       catalog = [i \in ProductIds |->
                    IF i = 1 THEN SamplePriceA ELSE IF i = 2 THEN SamplePriceB ELSE x]
  /\ \E h \in AuthHeaders : req = [p \in Procs |-> IF p = 1 THEN h ELSE NoAuth]

Next == Step(1) \/ Crash

Spec == Init /\ [][Next]_vars

(***************************************************************************)
(* SpecConc: two concurrent attempts on the same process and pool          *)
(***************************************************************************)
ConcCarts == {c \in Carts : \A i \in 1..Len(c) :
                c[i].quantity = 1 /\ c[i].productId \in {1, 2}}

InitConc ==
  /\ InitLocals(Pair)
  /\ InitCartSvc({})
  /\ InitUserSvc({})
  /\ cart \in [Users -> ConcCarts]
  /\ catalog = [i \in ProductIds |->
                  IF i = 1 THEN SamplePriceA ELSE IF i = 2 THEN SamplePriceB ELSE Absent]
  /\ \E h \in [Pair -> {TokenOf(u) : u \in Users}] :
       req = [p \in Procs |-> IF p \in Pair THEN h[p] ELSE NoAuth]

NextConc == \E p \in Pair : Step(p)

SpecConc == InitConc /\ [][NextConc]_vars

(***************************************************************************)
(* SpecRun: one checkout attempt on a process that nothing stops from      *)
(* outside; whatever ends the attempt is the handler's own doing           *)
(***************************************************************************)
NextRun == Step(1)

SpecRun == Init /\ [][NextRun]_vars

(***************************************************************************)
(* SpecReplay: the caller sends the same checkout request a second time    *)
(* once the first attempt is over                                          *)
(***************************************************************************)
InitReplay ==
  /\ InitLocals(Pair)
  /\ InitCartSvc({})
  /\ InitUserSvc({})
  /\ \E c \in Carts : cart = [u \in Users |-> IF u = 1 THEN c ELSE OtherCart]
  /\ \E x \in AddedPrices \cup {Absent} :
       catalog = [i \in ProductIds |->
                    IF i = 1 THEN SamplePriceA ELSE IF i = 2 THEN SamplePriceB ELSE x]
  /\ req = [p \in Procs |-> TokenOf(1)]

NextReplay ==
  \/ Step(1)
  \/ pc[1] \in {"done", "dead"} /\ Step(2)

SpecReplay == InitReplay /\ [][NextReplay]_vars

(***************************************************************************)
(* SpecPool: three concurrent attempts on a pool of two connections; every *)
(* call gets its answer (a statement still fails when the rows it refers   *)
(* to are not visible on its connection)                                   *)
(***************************************************************************)
Smooth(p) ==
  \/ Authenticate(p)
  \/ CartGet(p, TRUE)
  \/ PriceLookup(p, TRUE)
  \/ DbStep(p, "ok")
  \/ Clear(p, "ok")

InitPool ==
  /\ InitAttempts(Procs, PoolMax)
  /\ InitCartSvc({})
  /\ InitUserSvc({})
  /\ \E c \in ConcCarts : cart = [u \in Users |-> c]
  /\ catalog = [i \in ProductIds |->
                  IF i = 1 THEN SamplePriceA ELSE IF i = 2 THEN SamplePriceB ELSE Absent]
  /\ req = [p \in Procs |-> IF p = 2 THEN TokenOf(2) ELSE TokenOf(1)]

NextPool == \E p \in Procs : Smooth(p)

SpecPool == InitPool /\ [][NextPool]_vars

(***************************************************************************)
(* SpecRace: one checkout attempt of user 1 while the same user adds a     *)
(* product to the cart                                                     *)
(***************************************************************************)
RaceRequests ==
  {r \in CartRequests :
     r.auth = TokenOf(1) /\ r.op = "add" /\ r.productId # 0 /\ r.quantity > 0}

InitRace ==
  /\ InitLocals({1})
  /\ InitCartSvc({1})
  /\ InitUserSvc({})
  /\ \E c \in ConcCarts : cart = [u \in Users |-> IF u = 1 THEN c ELSE OtherCart]
  /\ \E x \in AddedPrices :
       catalog = [i \in ProductIds |->
                    IF i = 1 THEN SamplePriceA ELSE IF i = 2 THEN SamplePriceB ELSE x]
  /\ req = [p \in Procs |-> IF p = 1 THEN TokenOf(1) ELSE NoAuth]

NextRace ==
  \/ Step(1)
  \/ \E r \in RaceRequests : CartBegin(1, r)
  \/ RedisGet(1)
  \/ RedisSet(1)

SpecRace == InitRace /\ [][NextRace]_vars

(***************************************************************************)
(* SpecIso: one checkout attempt of either user while one cart request of   *)
(* any kind, by any caller, is served                                      *)
(***************************************************************************)
InitIso ==
  /\ InitLocals({1})
  /\ InitCartSvc({1})
  /\ InitUserSvc({})
  /\ \E c \in ConcCarts : \E d \in {<< >>, OtherCart} :
       cart = [u \in Users |-> IF u = 1 THEN c ELSE d]
  /\ catalog = [i \in ProductIds |->
                  IF i = 1 THEN SamplePriceA ELSE IF i = 2 THEN SamplePriceB ELSE Absent]
  /\ \E u \in Users : req = [p \in Procs |-> IF p = 1 THEN TokenOf(u) ELSE NoAuth]

NextIso == Smooth(1) \/ CartStep(1, CartRequests)

SpecIso == InitIso /\ [][NextIso]_vars

(***************************************************************************)
(* SpecUser: two concurrent POST /register, every body of the bounds, on   *)
(* an empty user table or one that holds a user                            *)
(***************************************************************************)
InitUser ==
  /\ InitLocals({})
  /\ InitCartSvc({})
  /\ InitUserSvc(UReqs)
  /\ cart = [u \in Users |-> << >>]
  /\ catalog = [i \in ProductIds |->
                  IF i = 1 THEN SamplePriceA ELSE IF i = 2 THEN SamplePriceB ELSE Absent]
  /\ req = [p \in Procs |-> NoAuth]

NextUser ==
  \E u \in UReqs :
    \/ \E body \in Bodies : RegisterBegin(u, body)
    \/ \E dbOk \in BOOLEAN : RegisterInsert(u, dbOk)

SpecUser == InitUser /\ [][NextUser]_vars

(***************************************************************************)
(* SpecHist: two concurrent checkout attempts and one GET /orders on one   *)
(* pool                                                                    *)
(***************************************************************************)
Lister == 3

InitHist ==
  /\ InitRequests(Pair, {Lister}, SmallPool)
  /\ InitCartSvc({})
  /\ InitUserSvc({})
  /\ cart = [u \in Users |-> OtherCart]
  /\ catalog = [i \in ProductIds |->
                  IF i = 1 THEN SamplePriceA ELSE IF i = 2 THEN SamplePriceB ELSE Absent]
  /\ \E h \in [Pair -> {TokenOf(u) : u \in Users}] : \E g \in AuthHeaders :
       req = [p \in Procs |-> IF p \in Pair THEN h[p] ELSE g]

NextHist ==
  \/ \E p \in Pair : Step(p)
  \/ GetOrders(Lister)
  \/ \E dbOk \in BOOLEAN : Select(Lister, dbOk)

SpecHist == InitHist /\ [][NextHist]_vars

(***************************************************************************)
(* SpecCart: the cart service alone, two requests of any kind in flight    *)
(***************************************************************************)
InitCart ==
  /\ InitLocals({})
  /\ InitCartSvc(CReqs)
  /\ InitUserSvc({})
  /\ \E c \in ConcCarts : \E d \in {<< >>, OtherCart} :
       cart = [u \in Users |-> IF u = 1 THEN c ELSE d]
  /\ catalog = [i \in ProductIds |->
                  IF i = 1 THEN SamplePriceA ELSE IF i = 2 THEN SamplePriceB ELSE Absent]
  /\ req = [p \in Procs |-> NoAuth]

NextCart == \E c \in CReqs : CartStep(c, CartRequests)

SpecCart == InitCart /\ [][NextCart]_vars

(***************************************************************************)
(* SpecShop: the three services together; carts are built with cart        *)
(* requests, one after the other, a product is added, and one checkout     *)
(* after the other runs while all this goes on                             *)
(***************************************************************************)
ShopRequests ==
  {r \in CartRequests :
     \/ r.auth = TokenOf(1) /\ r.op = "add" /\ r.productId # 0 /\ r.quantity # 2
     \/ r.auth = TokenOf(1) /\ r.op = "remove" /\ r.productId = 1
     \/ r.auth # TokenOf(2) /\ r.op = "clear"}

InitShop ==
  /\ InitLocals(Pair)
  /\ InitCartSvc(CReqs)
  /\ InitUserSvc({})
  /\ cart = [u \in Users |-> IF u = 1 THEN << >> ELSE OtherCart]
  /\ catalog = [i \in ProductIds |->
                  IF i = 1 THEN SamplePriceA ELSE IF i = 2 THEN SamplePriceB ELSE Absent]
  /\ \E h \in AuthHeaders \ {TokenOf(2)} : \E u \in Users :
       req = [p \in Procs |-> IF p = 1 THEN h ELSE TokenOf(u)]

NextShop ==
  \/ Step(1)
  \/ pc[1] \in {"done", "dead"} /\ Step(2)
  \/ CartStep(1, ShopRequests)
  \/ cpc[1] = "done" /\ CartStep(2, ShopRequests)
  \/ \E x \in AddedPrices : AddProduct(x)

SpecShop == InitShop /\ [][NextShop]_vars

TypeOK ==
  /\ \A p \in Procs : pc[p] \in InFlight \cup {"start", "list", "done", "dead", "unused"}
  /\ \A p \in Procs : hresp[p].status \in {0, 200, 401}
  /\ nextOrderId = Len(created_at) + 1
  /\ \A p \in Procs : resp[p].status \in {0, 200, 400, 401, 500}
  /\ \A c \in CReqs : cpc[c] \in {"idle", "get", "set", "del", "done", "unused"}
  /\ \A c \in CReqs : cresp[c].status \in {0, 200, 400, 401}
  /\ \A u \in UReqs : upc[u] \in {"idle", "insert", "done", "unused"}
  /\ \A u \in UReqs : uresp[u].status \in {0, 200, 400, 409, 500}
  /\ nextUserId \in Nat

(***************************************************************************)
(* Properties                                                              *)
(***************************************************************************)
HasCall(p, c) == \E i \in 1..Len(log[p]) : log[p][i] = c

HasFailed(p, c) == \E i \in 1..Len(failed[p]) : failed[p][i] = c

Ended(p) == pc[p] \in {"done", "dead"}

PersistStmts == {"BEGIN", "INSERT_ORDER", "INSERT_ITEM", "COMMIT"}

\* the statements of a complete persist of n items, in order
PersistCalls(n) ==
  <<"BEGIN", "INSERT_ORDER">> \o [i \in 1..n |-> "INSERT_ITEM"] \o <<"COMMIT">>

ItemsOf(id) == {r \in order_items : r.order_id = id}

\* a line item row without its serial
LineOf(r) == [order_id |-> r.order_id, product_id |-> r.product_id,
              quantity |-> r.quantity, price_at_purchase |-> r.price_at_purchase]

\* the line items attempt p writes: one row per resolved item
ExpectedItems(p) ==
  {LineOf(ItemRow(0, orderId[p], items[p][i])) : i \in 1..Len(items[p])}

\* the order of attempt p is in the order store: its header and all items
Persisted(p) ==
  /\ \E o \in orders : o.id = orderId[p] /\ o.user_id = req[p].userId
  /\ {LineOf(r) : r \in ItemsOf(orderId[p])} = ExpectedItems(p)
  /\ Cardinality(ItemsOf(orderId[p])) = Len(items[p])

RECURSIVE SumCents(_)
SumCents(rows) ==
  IF rows = {} THEN 0
  ELSE LET r == CHOOSE r \in rows : TRUE
       IN  r.price_at_purchase * r.quantity + SumCents(rows \ {r})

\* C1: the cart-clear call is issued only after BEGIN, the header insert,
\* every item insert and COMMIT have been issued in this order and none of
\* them failed, with the order then in the store; an attempt one of whose
\* persist statements failed makes no cart-clear call.
C1_ClearOnlyAfterPersist ==
  \A p \in Procs :
    /\ HasCall(p, "clear") =>
         /\ \E i \in 1..Len(log[p]) :
              /\ log[p][i] = "clear"
              /\ i > Len(items[p]) + 3
              /\ SubSeq(log[p], i - (Len(items[p]) + 3), i - 1)
                   = PersistCalls(Len(items[p]))
         /\ \A s \in PersistStmts : ~HasFailed(p, s)
         /\ Persisted(p)
    /\ (\E s \in PersistStmts : HasFailed(p, s)) => ~HasCall(p, "clear")

C1_Witness == pc[1] = "clear" /\ Len(items[1]) = 2

\* C2: every order header a reader can see comes with all the line items
\* of the attempt that wrote it, and every visible line item has its
\* header.
C2_NoPartialOrder ==
  /\ \A o \in orders : \E p \in Procs : orderId[p] = o.id /\ Persisted(p)
  /\ \A r \in order_items : \E o \in orders : o.id = r.order_id

\* C3: an attempt whose persist succeeded and whose cart-clear call failed
\* answers 200 with the order id and the total.
C3_ClearFailureReportsSuccess ==
  \A p \in Procs :
    (pc[p] = "done" /\ HasFailed(p, "clear")) => resp[p] = Success(orderId[p], total[p])

\* C4: after the cart-clear call of an attempt has failed, the committed
\* order stays in the store, header and all line items, up to and after
\* the end of the attempt.
C4_ClearFailureKeepsOrder ==
  \A p \in Procs : HasFailed(p, "clear") => Persisted(p)

C4_Witness == pc[1] = "done" /\ HasFailed(1, "clear") /\ resp[1].status = 500

\* C5: an attempt answered 500 'order failed' has left no order header and
\* no line item in the order store.
C5_FailureCommitsNothing ==
  \A p \in Procs :
    resp[p] = Failure(500, "order failed") =>
      /\ \A o \in orders : o.id # orderId[p]
      /\ ItemsOf(orderId[p]) = {}

\* C6: for an attempt answered 200, the total written to the header and
\* the total returned both equal the sum of price_at_purchase * quantity
\* over the persisted line items (the returned JSON number is that sum
\* when it is the double nearest to it, the one its decimal form reads as).
C6_TotalIsSumOfItems ==
  \A p \in Procs :
    resp[p].status = 200 =>
      /\ \A o \in orders :
           o.id = orderId[p] => o.total = SumCents(ItemsOf(orderId[p]))
      /\ resp[p].total = ParseFloat(SumCents(ItemsOf(orderId[p])))

\* C7: an attempt whose cart fetch returned an empty cart is over at once,
\* answered 400 'cart empty'; the cart fetch is its only call, the order
\* store and the pool are untouched.
C7_EmptyCartRejected ==
  \A p \in Procs :
    (pc[p] \notin {"start", "cartGet", "dead", "unused"} /\ snapshot[p] = << >>
       /\ req[p].token = "valid") =>
      /\ pc[p] = "done"
      /\ resp[p] = Failure(400, "cart empty")
      /\ log[p] = <<"cartGet">>
      /\ orders = {} /\ order_items = {} /\ nextOrderId = 1
      /\ pool = NewPool

C7_Witness == resp[1] = Failure(400, "cart empty") /\ cart[1] = << >>

\* C8: as long as not every entry of the snapshot is priced, and so when a
\* price lookup has failed, the attempt has issued no order-store statement
\* and no cart-clear call; the order store holds nothing and the cart is
\* what was fetched.
C8_NoWriteBeforeAllPriced ==
  \A p \in Procs :
    (Len(items[p]) < Len(snapshot[p]) \/ HasFailed(p, "price")) =>
      /\ \A c \in DbStmts \cup {"clear"} : ~HasCall(p, c)
      /\ orders = {} /\ order_items = {} /\ nextOrderId = 1
      /\ cart[req[p].userId] = snapshot[p]

C8_Witness ==
  /\ pc[1] = "dead" /\ HasFailed(1, "price")
  /\ Len(items[1]) = 1 /\ Len(snapshot[1]) = 2

\* C9: an attempt one of whose product lookups failed has answered the
\* caller with a failure status.
C9_LookupFailureAnswered ==
  \A p \in Procs : HasFailed(p, "price") => resp[p].status \in {400, 500}

\* C10: an attempt whose cart fetch failed ends with a failure answer that
\* is not 'cart empty', creates no order and makes no cart-clear call.
C10_FetchFailureOutcome ==
  \A p \in Procs :
    HasFailed(p, "cartGet") =>
      /\ resp[p].status \in {500, 502, 503, 504}
      /\ resp[p] # Failure(400, "cart empty")
      /\ orders = {} /\ order_items = {}
      /\ ~HasCall(p, "clear")

\* C11: an attempt that has ended, whichever of its calls failed, has sent
\* its one response: the order id and total, or a failure with its status
\* and error.
C11_EndedWithResponse ==
  \A p \in Procs :
    Ended(p) =>
      \/ resp[p] = Success(orderId[p], total[p])
      \/ resp[p].status \in {400, 401, 500} /\ resp[p].error # ""

\* C12: when a persist statement of the first attempt failed or timed out
\* and the same request was sent again, then after both attempts have ended
\* and the second one succeeded the order store holds exactly one order of
\* that user.
C12_ReplayOneOrder ==
  (/\ Ended(1) /\ Ended(2)
   /\ \E s \in PersistStmts : HasFailed(1, s)
   /\ resp[2].status = 200) =>
    Cardinality({o \in orders : o.user_id = req[1].userId}) = 1

CountOf(s, c) == Cardinality({i \in 1..Len(s) : s[i] = c})

\* C13: an attempt ends on a failed cart fetch or a failed price lookup
\* only when that call has failed twice, the first failure being followed
\* by a second call.
C13_RetriedOnce ==
  \A p \in Procs : \A c \in {"cartGet", "price"} :
    (Ended(p) /\ HasFailed(p, c)) => CountOf(failed[p], c) = 2

Rejected401(h) ==
  IF h.token = "none" THEN "missing auth" ELSE "invalid token"

\* C14: the step that takes up a POST /orders request or a cart request
\* without Authorization header answers 401 'missing auth', with a token
\* that does not verify 401 'invalid token'; it ends the request, issues
\* no call and leaves carts, catalog, order store and pool as they were,
\* and a request so answered stays ended with no call made.
C14_Unauthenticated ==
  /\ [][/\ \A p \in Procs :
            (pc[p] = "start" /\ pc'[p] # "start" /\ req[p].token # "valid") =>
              /\ resp'[p] = Failure(401, Rejected401(req[p]))
              /\ pc'[p] = "done" /\ log'[p] = << >>
              /\ UNCHANGED <<cart, catalog, store, pool>>
        /\ \A c \in CReqs :
            (cpc[c] = "idle" /\ cpc'[c] # "idle" /\ creq'[c].auth.token # "valid") =>
              /\ cresp'[c] = CFailure(401, Rejected401(creq'[c].auth))
              /\ cpc'[c] = "done"
              /\ UNCHANGED <<cart, catalog, store, pool>>]_vars
  /\ [](/\ \A p \in Procs :
            (pc[p] # "start" /\ req[p].token # "valid") =>
              /\ pc[p] = "done" /\ log[p] = << >> /\ snapshot[p] = << >>
              /\ resp[p] = Failure(401, Rejected401(req[p]))
        /\ \A c \in CReqs :
            (cpc[c] # "idle" /\ creq[c].auth.token # "valid") =>
              /\ cpc[c] = "done" /\ cbuf[c] = << >>
              /\ cresp[c] = CFailure(401, Rejected401(creq[c].auth)))

C14_Witness ==
  /\ resp[1] = Failure(401, "invalid token")
  /\ resp[2].status = 200
  /\ cresp[1] = CFailure(401, "missing auth")
  /\ cresp[2] = CFailure(401, "invalid token")

\* C15: no line item in the order store has a quantity of zero or less or
\* a negative price, and no order of an attempt that has ended is without
\* line items.
C15_NoInvalidOrder ==
  /\ \A r \in order_items : r.quantity > 0 /\ r.price_at_purchase >= 0
  /\ \A p \in Procs : \A o \in orders :
       (pc[p] = "done" /\ o.id = orderId[p]) => ItemsOf(o.id) # {}

\* C16: every line item in the order store carries the price its checkout
\* read for that product, which is the catalog's price of the product; and
\* no step of any request changes or removes an order of the store: its
\* header stays and its set of line items is the same after the step.
C16_OrdersImmutable ==
  /\ [](\A r \in order_items :
          /\ r.price_at_purchase = catalog[r.product_id]
          /\ \E p \in Procs : \E i \in 1..Len(items[p]) :
               /\ orderId[p] = r.order_id
               /\ items[p][i].productId = r.product_id
               /\ items[p][i].price = ParseFloat(r.price_at_purchase))
  /\ [][\A o \in orders :
          /\ o \in orders'
          /\ {r \in order_items' : r.order_id = o.id} = ItemsOf(o.id)]_vars

\* an order is in the store, and after it a product was added, the cart was
\* changed and a second checkout committed an order with the new product
C16_Witness ==
  /\ \E o \in orders : o.id = 1 /\ \A r \in ItemsOf(1) : r.product_id = 1
  /\ \E r \in ItemsOf(2) : r.product_id = 3 /\ r.quantity = 1
  /\ \E o \in orders : o.id = 2
  /\ pc[2] = "done" /\ cpc[2] = "done"

\* C17: when an attempt has answered 200, the order store holds one order
\* of its user, the new one, whose line items are one per entry of the cart
\* that was fetched, with the entry's productId and quantity and the
\* catalog's price, and the cart of the user is empty.
C17_SuccessfulCheckout ==
  \A p \in Procs :
    resp[p].status = 200 =>
      /\ {o.id : o \in {x \in orders : x.user_id = req[p].userId}} = {orderId[p]}
      /\ Cardinality(orders) = 1
      /\ Cardinality(ItemsOf(orderId[p])) = Len(snapshot[p])
      /\ \A i \in 1..Len(snapshot[p]) : \E r \in ItemsOf(orderId[p]) :
           /\ r.product_id = snapshot[p][i].productId
           /\ r.quantity = snapshot[p][i].quantity
           /\ r.price_at_purchase = catalog[r.product_id]
      /\ cart[req[p].userId] = << >>

C17_Witness ==
  /\ resp[1].status = 200 /\ Len(snapshot[1]) = 2
  /\ Cardinality(order_items) = 2

C19_SnapshotOrder ==
  \A p \in Procs :
    /\ \A i \in 1..Len(items[p]) :
         /\ items[p][i].productId = snapshot[p][i].productId
         /\ items[p][i].quantity = snapshot[p][i].quantity
    /\ \A r \in ItemsOf(orderId[p]) :
         LET i == Cardinality({x \in ItemsOf(orderId[p]) : x.id <= r.id})
         IN  /\ i <= Len(snapshot[p])
             /\ r.product_id = snapshot[p][i].productId
             /\ r.quantity = snapshot[p][i].quantity

C19_Witness ==
  /\ pc[1] = "done" /\ Cardinality(ItemsOf(orderId[1])) = 2
  /\ snapshot[1][1].productId = 3 /\ snapshot[1][2].productId = 1

\* the decimal sum of price * quantity over resolved items, in cents
RECURSIVE ExactCents(_)
ExactCents(its) ==
  IF its = << >> THEN 0
  ELSE ToNumeric2(its[1].price) * its[1].quantity + ExactCents(Tail(its))

\* C20: the total an attempt computes from its resolved items is their
\* exact decimal sum of price * quantity: the Number it holds is the one
\* the decimal form of that sum denotes, with no digits of drift.
C20_ExactDecimalTotal ==
  \A p \in Procs :
    HasCall(p, "BEGIN") => total[p] = ParseFloat(ExactCents(items[p]))

\* the cart request c has been answered with success
Answered(c) == cpc[c] = "done" /\ cresp[c].status = 200

UserOf(c) == creq[c].auth.userId

\* C21: when POST /cart/add has read the cart, the array it will write is
\* the cart read with the quantity of the product's entry increased by the
\* given quantity, or, when no entry has the productId, with one entry
\* appended; and no stored cart has two entries with the same productId.
C21_AddOrIncrement ==
  /\ [][\A c \in CReqs :
          (cpc[c] = "get" /\ cpc'[c] = "set" /\ creq[c].op = "add") =>
            LET old == cart[UserOf(c)]
                new == cbuf'[c]
                pid == creq[c].productId
                at  == {i \in 1..Len(old) : old[i].productId = pid}
            IN  IF at = {}
                THEN /\ Len(new) = Len(old) + 1
                     /\ SubSeq(new, 1, Len(old)) = old
                     /\ new[Len(new)] = [productId |-> pid,
                                          quantity |-> creq[c].quantity]
                ELSE /\ Len(new) = Len(old)
                     /\ \A i \in 1..Len(old) :
                          /\ new[i].productId = old[i].productId
                          /\ new[i].quantity =
                               IF i \in at THEN old[i].quantity + creq[c].quantity
                               ELSE old[i].quantity]_vars
  /\ [](\A u \in Users : \A i, j \in 1..Len(cart[u]) :
          i # j => cart[u][i].productId # cart[u][j].productId)

\* both requests were adds of product 1 for user 1 and the cart holds one
\* entry of product 1 with the two quantities added up
C21_Witness ==
  /\ \A c \in CReqs : Answered(c) /\ creq[c].op = "add" /\ UserOf(c) = 1
                         /\ creq[c].productId = 1
  /\ cart[1] = <<[productId |-> 1, quantity |-> 4]>>

\* C22: every entry of every stored cart and of every snapshot a checkout
\* has fetched has a quantity above zero.
C22_PositiveQuantities ==
  /\ \A u \in Users : \A i \in 1..Len(cart[u]) : cart[u][i].quantity > 0
  /\ \A p \in Procs : \A i \in 1..Len(snapshot[p]) : snapshot[p][i].quantity > 0

\* C23: the step in which POST /cart/clear deletes the cart answers with
\* success and leaves the user's cart empty and every other cart as it
\* was, so that it changes nothing when the cart is empty already; and a
\* cart that is empty becomes non-empty only by the write of an add.
C23_ClearIdempotent ==
  /\ [][\A c \in CReqs :
          (cpc[c] = "del" /\ cpc'[c] = "done") =>
            /\ cresp'[c].status = 200
            /\ cart'[UserOf(c)] = << >>
            /\ \A u \in Users \ {UserOf(c)} : cart'[u] = cart[u]
            /\ cart[UserOf(c)] = << >> => cart' = cart]_vars
  /\ [][\A u \in Users :
          (cart[u] = << >> /\ cart'[u] # << >>) =>
            \E c \in CReqs :
              /\ cpc[c] = "set" /\ cpc'[c] = "done"
              /\ creq[c].op = "add" /\ UserOf(c) = u]_vars

\* C24: when the Redis read of GET /cart finds no entries for the user,
\* the request is answered 200 with the empty array and no error.
C24_EmptyCartRead ==
  [][\A c \in CReqs :
       (cpc[c] = "get" /\ cpc'[c] = "done" /\ cart[UserOf(c)] = << >>) =>
         cresp'[c] = [status |-> 200, error |-> "", cart |-> << >>]]_vars

\* a cart was cleared and then read
C24_Witness ==
  /\ creq[1].op = "clear" /\ creq[2].op = "get" /\ UserOf(1) = 2 /\ UserOf(2) = 2
  /\ Answered(1) /\ Answered(2)
  /\ cresp[2].cart = << >> /\ cart[2] = << >>

\* C25: the response of an attempt, when it has sent one, is 401 'missing
\* auth', 401 'invalid token', 400 'cart empty', 500 'order failed', or 200
\* with the order id and the total and nothing else.
C25_FixedOutcomes ==
  \A p \in Procs :
    \/ resp[p] = NoResp
    \/ resp[p] \in {Failure(401, "missing auth"), Failure(401, "invalid token"),
                    Failure(400, "cart empty"), Failure(500, "order failed")}
    \/ resp[p] = Success(orderId[p], total[p])

C25_Witness ==
  /\ resp[1] = Failure(500, "order failed")
  /\ failed[1] = <<"INSERT_ITEM">>

\* C26: with two attempts on one process and pool, each attempt fares as
\* it would alone: an attempt answered 200 has its order in the store,
\* header and all line items, and an attempt answered 500 after one of its
\* statements before COMMIT failed has no row in the store.
C26_AttemptsIsolated ==
  \A p \in Procs :
    /\ resp[p].status = 200 => Persisted(p)
    /\ (/\ resp[p].status = 500
        /\ \E s \in {"BEGIN", "INSERT_ORDER", "INSERT_ITEM"} : HasFailed(p, s)) =>
         /\ orderId[p] # 0 => \A o \in orders : o.id # orderId[p]
         /\ orderId[p] # 0 => ItemsOf(orderId[p]) = {}

NetworkCalls == {"cartGet", "price", "clear"}

\* C27: while an attempt waits for the answer of the cart service or of
\* the product service, no connection of the pool is in a transaction that
\* a BEGIN of that attempt opened.
C27_NoTxnAcrossCall ==
  \A p \in Procs :
    pc[p] \in NetworkCalls =>
      \A c \in Conns : ~(pool.conn[c].st = "open" /\ pool.conn[c].by = p)

\* C28: once a checkout answered 200 and an add of the same user was
\* answered with success, the entry the add wrote (its product with the
\* quantity the add answered) is a line item of the order or is in the
\* cart.
C28_AddedItemNotDropped ==
  \A p \in Procs : \A c \in CReqs :
    (/\ resp[p].status = 200
     /\ Answered(c) /\ creq[c].op = "add" /\ UserOf(c) = req[p].userId) =>
      LET u == UserOf(c)
          e == CHOOSE x \in {cresp[c].cart[i] : i \in 1..Len(cresp[c].cart)} :
                 x.productId = creq[c].productId
      IN  \/ \E r \in ItemsOf(orderId[p]) :
               r.product_id = e.productId /\ r.quantity = e.quantity
          \/ \E i \in 1..Len(cart[u]) : cart[u][i] = e

\* the cart a request leaves when it runs alone on the cart c
Effect(r, c) ==
  IF r.op = "add" THEN AddTo(c, r.productId, r.quantity)
  ELSE RemoveFrom(c, r.productId)

\* C29: once two add or remove requests of the same user have both been
\* answered with success, the stored cart is what one of them makes of the
\* cart the other one answered: the two took effect in some serial order.
C29_NoLostUpdate ==
  \A a \in CReqs : \A b \in CReqs \ {a} :
    (/\ Answered(a) /\ Answered(b)
     /\ creq[a].op \in {"add", "remove"} /\ creq[b].op \in {"add", "remove"}
     /\ UserOf(a) = UserOf(b)) =>
      \/ cart[UserOf(a)] = Effect(creq[b], cresp[a].cart)
      \/ cart[UserOf(a)] = Effect(creq[a], cresp[b].cart)

\* the header of the order attempt p inserted is in the order store
HasOrder(p) == \E o \in orders : o.id = orderId[p] /\ o.user_id = req[p].userId

\* C30: two attempts of the same user that read the same non-empty cart
\* never both have an order in the order store.
C30_OneOrderPerCart ==
  \A p \in Procs : \A q \in Procs \ {p} :
    (/\ req[p].token = "valid" /\ req[p].userId = req[q].userId
     /\ req[q].token = "valid"
     /\ snapshot[p] # << >> /\ snapshot[p] = snapshot[q]) =>
      ~(HasOrder(p) /\ HasOrder(q))

\* the order rows of the store, committed or pending on a connection
AllOrders == orders \cup UNION {pool.conn[c].pOrders : c \in Conns}

\* C31: every order row carries the userId of the verified token of the
\* attempt that inserted it; the cart an attempt reads is the cart of that
\* user; and a cart changes only by being emptied by the cart-clear call of
\* an attempt of its own user.
C31_OwnCartOnly ==
  /\ [](\A o \in AllOrders : \A p \in Procs :
          o.id = orderId[p] => req[p].token = "valid" /\ o.user_id = req[p].userId)
  /\ [][/\ \A o \in AllOrders' \ AllOrders :
             \E p \in Procs : pc[p] = "INSERT_ORDER" /\ o.user_id = req[p].userId
        /\ \A p \in Procs :
             (pc[p] = "cartGet" /\ pc'[p] \in {"price", "done"}) =>
               snapshot'[p] = cart[req[p].userId]
        /\ \A u \in Users :
             cart'[u] # cart[u] =>
               /\ cart'[u] = << >>
               /\ \E p \in Procs :
                    pc[p] = "clear" /\ pc'[p] # "clear" /\ req[p].userId = u]_vars

\* an attempt of user 2 answered 200: its order is in the store, the cart
\* of user 2 is empty and the different cart of user 1 is as it was
C31_Witness ==
  \E p \in Procs :
    /\ resp[p].status = 200 /\ req[p] = TokenOf(2)
    /\ \E o \in orders : o.id = orderId[p] /\ o.user_id = 2
    /\ cart[2] = << >> /\ cart[1] # << >> /\ cart[1] # snapshot[p]
    /\ \A q \in Procs : req[q] = TokenOf(1) => pc[q] = "start"

\* C32: the stored cart of a user changes only by the Redis write of an
\* add, remove or clear carrying a valid token of that user, or by the
\* cart-clear call of a checkout of that user; and GET /cart answers the
\* stored cart of the caller.
C32_CartsIsolated ==
  [][/\ \A u \in Users :
          cart'[u] # cart[u] =>
            \/ \E c \in CReqs :
                 /\ cpc[c] \in {"set", "del"} /\ cpc'[c] = "done"
                 /\ creq[c].auth = TokenOf(u)
            \/ \E p \in Procs :
                 pc[p] = "clear" /\ pc'[p] # "clear" /\ req[p] = TokenOf(u)
     /\ \A c \in CReqs :
          (creq[c].op = "get" /\ cpc[c] = "get" /\ cpc'[c] = "done") =>
            cresp'[c] = COk(cart[UserOf(c)])]_vars

\* a cart request of user 1 has changed the cart of user 1, user 1's cart
\* now differs from user 2's, and user 2's cart is not empty
C32_Witness ==
  \E c \in CReqs :
    /\ Answered(c) /\ creq[c].auth = TokenOf(1) /\ creq[c].op \in {"add", "remove", "clear"}
    /\ cart[1] = cresp[c].cart /\ cart[2] # << >> /\ cart[1] # cart[2]
    /\ pc[1] \in {"start", "done"}

\* C33: when POST /cart/remove has read the cart, the array it will write
\* holds the entries of the cart read whose productId is not the given one,
\* unchanged and in their order, and nothing else; when no entry has the
\* given productId it is the cart read; and that array is what the handler
\* stores and answers.
C33_RemoveOnlyThat ==
  [][\A c \in CReqs :
       /\ (cpc[c] = "get" /\ cpc'[c] = "set" /\ creq[c].op = "remove") =>
            LET old  == cart[UserOf(c)]
                new  == cbuf'[c]
                pid  == creq[c].productId
                keep == {i \in 1..Len(old) : old[i].productId # pid}
            IN  /\ Len(new) = Cardinality(keep)
                /\ \E f \in [1..Len(new) -> keep] :
                     /\ \A i, j \in 1..Len(new) : i < j => f[i] < f[j]
                     /\ \A i \in 1..Len(new) : new[i] = old[f[i]]
                /\ keep = 1..Len(old) => new = old
       /\ (cpc[c] = "set" /\ cpc'[c] = "done" /\ creq[c].op = "remove") =>
            /\ cart'[UserOf(c)] = cbuf[c]
            /\ cresp'[c] = COk(cbuf[c])]_vars

\* user 1 read a cart of two entries with GET /cart and then removed
\* product 1: the entry of product 2 is what is left
C33_Witness ==
  \E c \in CReqs : \E d \in CReqs \ {c} :
    /\ Answered(c) /\ creq[c].op = "remove" /\ creq[c].productId = 1
    /\ creq[c].auth = TokenOf(1)
    /\ Answered(d) /\ creq[d].op = "get" /\ creq[d].auth = TokenOf(1)
    /\ Len(cresp[d].cart) = 2
    /\ cart[1] = <<[productId |-> 2, quantity |-> 1]>>

\* C36: when an attempt has ended, no connection of the pool holds an open
\* transaction that a BEGIN of this attempt opened.
C36_NoLeftoverTxn ==
  \A p \in Procs :
    Ended(p) =>
      \A c \in Conns : ~(pool.conn[c].st = "open" /\ pool.conn[c].by = p)

\* C35: the user table never holds two rows with one username; a register
\* with a missing username or password is answered 400 and sends no insert;
\* an insert the database executes for a username that is in the table is
\* answered 409 'username exists' and leaves the table unchanged; and the
\* table changes only by one new row, with a username that was not in it,
\* answered 200.
C35_UniqueUsernames ==
  /\ [](\A a \in users : \A b \in users : a.username = b.username => a = b)
  /\ [][\A u \in UReqs :
          /\ (upc[u] = "idle" /\ upc'[u] # "idle") =>
               IF ureq'[u].username = "" \/ ureq'[u].password = ""
               THEN /\ uresp'[u] = UFailure(400, "username+password required")
                    /\ upc'[u] = "done" /\ users' = users
               ELSE upc'[u] = "insert" /\ users' = users
          /\ (upc[u] = "insert" /\ upc'[u] = "done" /\ uresp'[u].status # 500) =>
               IF \E r \in users : r.username = ureq[u].username
               THEN uresp'[u] = UFailure(409, "username exists") /\ users' = users
               ELSE /\ uresp'[u].status = 200
                    /\ \E r \in users' :
                         /\ users' = users \cup {r} /\ r \notin users
                         /\ r.username = ureq[u].username
                         /\ uresp'[u].user = [id |-> r.id, username |-> r.username]
          /\ (upc[u] = "insert" /\ upc'[u] = "done" /\ uresp'[u].status = 500) =>
               users' = users]_vars

\* two concurrent registers of one username on an empty table: one is
\* answered 200, the other 409, and the table holds one user
C35_Witness ==
  /\ ureq[1].username = "bob" /\ ureq[2].username = "bob"
  /\ {uresp[1].status, uresp[2].status} = {200, 409}
  /\ Cardinality(users) = 1

\* the orders of user u in the order store
OrdersOf(u) == {o \in orders : o.user_id = u}

\* the request q has taken the step
Stepped(q) == log'[q] # log[q] \/ failed'[q] # failed[q] \/ resp'[q] # resp[q]

\* C34: the rows GET /orders answers are the orders of the caller in the
\* order store, each once, from the latest created_at to the earliest; and
\* the orders of a user in the store, which is what GET /orders answers
\* that user, change only by a step of a request of that user.
C34_OwnOrdersNewestFirst ==
  [][/\ \A p \in Procs :
          (pc[p] = "SELECT" /\ pc'[p] = "done") =>
            LET res == hresp'[p].orders IN
              /\ {res[i].id : i \in 1..Len(res)} = {o.id : o \in OrdersOf(req[p].userId)}
              /\ Len(res) = Cardinality(OrdersOf(req[p].userId))
              /\ \A i, j \in 1..Len(res) :
                   i < j => res[i].created_at >= res[j].created_at
     /\ \A u \in Users :
          OrdersOf(u)' # OrdersOf(u) =>
            \E q \in Procs : Stepped(q) /\ req[q].userId = u]_vars

====
